---- MODULE Spec2Model ----
(***************************************************************************)
(* Income / expense gap analysis: the batch pipeline of run_analysis.py    *)
(* (driver), acquire_data.py (source fetchers) and process_data.py         *)
(* (normalizers and joiner).                                               *)
(*                                                                         *)
(* Spec          the driver, its four stage sub-processes and the raw and  *)
(*               processed stores, over several pipeline runs.             *)
(***************************************************************************)
EXTENDS Integers, Sequences, FiniteSets, TLC

VARIABLES
    \* ---- pipeline (run_analysis.py and the two stage scripts)
    run,        \* number of driver invocations so far
    pc,         \* driver position: "idle", "main", "stage", "done"
    stagePc,    \* position inside the running stage sub-process
    started,    \* the stages run_script has started in this run, in order
    status,     \* stage -> exit status of its sub-process (NotRun before)
    exitCode,   \* status given to sys.exit by the driver (NotRun before)
    raw,        \* raw store: file -> run that wrote it (Absent if none)
    proc,       \* processed store: file -> run that wrote it
    stderr,     \* log records of the running stage sub-process
    returned,   \* normalizer/joiner -> whether its last call returned data
    log,        \* analysis_pipeline.log: what run_script wrote for each stage,
                \* appended to by every driver process
    \* ---- tables (the contents the stage scripts read and write)
    pandas,     \* the installed pandas generation: 2 (before 3.0) or 3
    phase,      \* "input" while a raw table is being written, then "done"
    bls_raw,    \* bls_consumer_expenditure.csv: the Series Records
    bls_out,    \* processed_bls_expenditure.csv: <<>> or <<wide table>>
    census_raw, \* census_states_acs.csv, census_metros_acs.csv: the rows
    census_out, \* processed_states_acs.csv, processed_metros_acs.csv
    mig_raw,    \* synthetic_migration_data.csv: the Migration Edges
    mig_out,    \* the inflow, outflow and destination views: <<>> or <<views>>
    bls_years,  \* processed_bls_expenditure.csv as the joiner reads it: its years
    metros_data,\* processed_metros_acs.csv as the joiner reads it: the metro names
    inflow_data,\* processed_migration_inflow.csv as the joiner reads it
    merged_data,\* combined_analysis_data.csv: <<>> or <<rows>>
    hud_raw,    \* hud_fair_market_rent.csv as read_csv reads it: columns and rows
    hud_out,    \* processed_hud_rent.csv: <<>> or <<table>>
    \* ---- the migration fetcher
    rng,        \* state of np.random's global generator in the running process
    calls,      \* invocations of get_migration_data so far
    gen_first,  \* the edges the first invocation returned: <<>> or <<edges>>
    gen_last    \* the edges the latest invocation returned

pipeVars == <<run, pc, stagePc, started, status, exitCode, raw, proc, stderr, returned, log>>

blsVars == <<bls_raw, bls_out>>

censusVars == <<census_raw, census_out>>

migVars == <<mig_raw, mig_out>>

joinVars == <<bls_years, metros_data, inflow_data, merged_data>>

genVars == <<rng, calls, gen_first, gen_last>>

hudVars == <<hud_raw, hud_out>>

tableVars == <<pandas, phase, blsVars, censusVars, migVars, joinVars, genVars, hudVars>>

vars == <<pipeVars, tableVars>>

\* What each normalizer's specification leaves alone
notBls == <<pipeVars, censusVars, migVars, joinVars, genVars, hudVars>>
notCensus == <<pipeVars, blsVars, migVars, joinVars, genVars, hudVars>>
notMig == <<pipeVars, blsVars, censusVars, joinVars, genVars, hudVars>>
notJoin == <<pipeVars, blsVars, censusVars, migVars, genVars, hudVars>>
notGen == <<pipeVars, blsVars, censusVars, migVars, joinVars, hudVars>>
notHud == <<pipeVars, blsVars, censusVars, migVars, joinVars, genVars>>

-----------------------------------------------------------------------------
(* Bounds *)

MaxRuns == 2

\* Series Records in the raw expenditure table
MaxRecords == 4

\* Rows in the raw survey tables (states and metros together)
MaxRows == 2

\* Edges in the raw migration table
MaxEdges == 3

\* Rows in the processed metro survey table and in the inflow table
MaxMetros == 2
MaxInflow == 2

\* Invocations of get_migration_data, and states of the random generator
MaxCalls == 2
RngModulus == 300

\* Rows in the raw rent benchmark table
MaxHudRows == 2

-----------------------------------------------------------------------------
(* Values *)

Absent == -1
NotRun == -1
NoFiles == {}

\* run_analysis.py main(): the four scripts, in the order they are run
Stages == <<"acquire_data", "process_data", "visualize_data", "predict_rent_changes">>

RawFiles == {"bls_consumer_expenditure", "census_states_acs", "census_metros_acs",
             "hud_fair_market_rent", "synthetic_migration_data"}

ProcessedFiles == {"processed_bls_expenditure", "processed_states_acs",
                   "processed_metros_acs", "processed_hud_rent",
                   "processed_migration_inflow", "processed_migration_outflow",
                   "processed_migration_destinations", "combined_analysis_data"}

\* combine_data_for_analysis: the files whose existence is checked
RequiredFiles == {"processed_bls_expenditure", "processed_metros_acs",
                  "processed_migration_inflow"}

Normalizers == {"bls", "census_states", "census_metros", "hud", "migration", "combine"}

\* A log record: the message template and the file paths interpolated into it.
LogRec(level, text, files) == [level |-> level, text |-> text, files |-> files]

Exists(store, f) == store[f] # Absent

Write(store, files, ok) ==
    IF ok THEN [f \in DOMAIN store |-> IF f \in files THEN run ELSE store[f]]
    ELSE store

-----------------------------------------------------------------------------
(* run_analysis.py *)

\* __main__ / main() entry: a new driver process
DriverStart ==
    /\ pc \in {"idle", "done"}
    /\ run < MaxRuns
    /\ run' = run + 1
    /\ pc' = "main"
    /\ started' = <<>>
    /\ status' = [i \in 1..Len(Stages) |-> NotRun]
    /\ exitCode' = NotRun
    /\ stagePc' = "none"
    /\ stderr' = <<>>
    /\ UNCHANGED <<tableVars, raw, proc, returned, log>>

\* A driver that runs the next script whatever the earlier ones returned
NextStageNoAbort ==
    IF Len(started) = Len(Stages) THEN 0 ELSE Len(started) + 1

\* main(): the next script to run, or 0 when main returns
NextStage ==
    IF \E i \in 1..Len(started) : status[started[i]] # 0 THEN 0
    ELSE IF Len(started) = Len(Stages) THEN 0
    ELSE Len(started) + 1

FirstStep(i) ==
    CASE i = 1 -> "acquire_data_import"
      [] i = 2 -> "import"
      [] OTHER -> "external"

\* run_script up to subprocess.run: the stage's sub-process is spawned
RunScript ==
    /\ pc = "main"
    /\ NextStage # 0
    /\ started' = Append(started, NextStage)
    /\ pc' = "stage"
    /\ stagePc' = FirstStep(NextStage)
    /\ stderr' = <<>>
    /\ UNCHANGED <<tableVars, run, status, exitCode, raw, proc, returned, log>>

\* run_script after subprocess.run: with status 0 the captured stdout lines
\* and the duration are logged and the captured stderr is dropped; in the
\* CalledProcessError handler the return code, the stdout lines and the
\* stderr lines are logged and no duration is. err is the captured stderr.
StageLog(stage, rc, err) ==
    IF rc = 0
    THEN [stage |-> stage, returncode |-> NotRun, stdout |-> TRUE,
          stderr |-> <<>>, duration |-> TRUE]
    ELSE [stage |-> stage, returncode |-> rc, stdout |-> TRUE,
          stderr |-> err, duration |-> FALSE]

\* subprocess.run returns (or raises CalledProcessError): run_script logs and
\* returns
StageExit(rc, err) ==
    /\ status' = [status EXCEPT ![started[Len(started)]] = rc]
    /\ log' = Append(log, StageLog(started[Len(started)], rc, err))
    /\ pc' = "main"
    /\ stagePc' = "none"

\* main(): True after the fourth run_script returned True, False at the first
\* run_script that returned False
MainReturn == \A i \in 1..Len(Stages) : status[i] = 0

\* An exit status that does not look at main()'s result
ExitStatusAlwaysZero(success) == 0

\* sys.exit(0 if success else 1)
ExitStatus(success) == IF success THEN 0 ELSE 1

DriverExit ==
    /\ pc = "main"
    /\ NextStage = 0
    /\ exitCode' = ExitStatus(MainReturn)
    /\ pc' = "done"
    /\ UNCHANGED <<tableVars, run, stagePc, started, status, raw, proc, stderr, returned, log>>

\* The visualization and modeling scripts: all the driver sees is the status
ExternalStage ==
    /\ pc = "stage"
    /\ stagePc = "external"
    /\ \E rc \in {0, 1} :
         \E err \in {stderr, Append(stderr, LogRec("traceback", "Error", NoFiles))} :
            /\ rc # 0 => err # stderr
            /\ stderr' = err
            /\ StageExit(rc, err)
    /\ UNCHANGED <<tableVars, run, started, exitCode, raw, proc, returned>>

-----------------------------------------------------------------------------
(* acquire_data.py *)

\* Module level: the imports and os.makedirs(RAW_DATA_DIR), which may raise
AcquireDataImport ==
    /\ pc = "stage"
    /\ stagePc = "acquire_data_import"
    /\ \E ok \in BOOLEAN :
         IF ok
         THEN /\ stagePc' = "get_bls_expenditure_data"
              /\ stderr' = stderr
              /\ UNCHANGED <<pc, status, log>>
         ELSE /\ stderr' = Append(stderr, LogRec("traceback", "OSError", NoFiles))
              /\ StageExit(1, stderr')
    /\ UNCHANGED <<tableVars, run, started, exitCode, raw, proc, returned>>

\* A fetcher that leaves its raw files written whatever happened
FetchLeavesPartial(files, wrote, recs, next) ==
    /\ pc = "stage"
    /\ raw' = Write(raw, files, TRUE)
    /\ stderr' = stderr \o recs
    /\ stagePc' = next
    /\ UNCHANGED <<tableVars, run, pc, started, status, exitCode, proc, returned, log>>

\* A fetcher's call: whether its raw files were written, and the warning and
\* error records it logged; main() then calls the next fetcher
Fetch(files, wrote, recs, next) ==
    /\ pc = "stage"
    /\ raw' = Write(raw, files, wrote)
    /\ stderr' = stderr \o recs
    /\ stagePc' = next
    /\ UNCHANGED <<tableVars, run, pc, started, status, exitCode, proc, returned, log>>

\* api_key is None (main passes None): the warning logged before the request
BlsKeyRec == LogRec("warning", "No BLS API key provided", NoFiles)

\* requests.post / raise_for_status / result['status'] decide: the table is
\* saved, or the provider's status is not REQUEST_SUCCEEDED, or an exception
\* is caught
get_bls_expenditure_data ==
    /\ stagePc = "get_bls_expenditure_data"
    /\ \E outcome \in {"saved", "refused", "error"} :
         Fetch({"bls_consumer_expenditure"}, outcome = "saved",
               CASE outcome = "saved" -> <<BlsKeyRec>>
                 [] outcome = "refused" ->
                      <<BlsKeyRec, LogRec("error", "BLS API request failed", NoFiles)>>
                 [] OTHER ->
                      <<BlsKeyRec, LogRec("error", "Error fetching BLS data", NoFiles)>>,
               "get_census_data")

\* df_metros.to_csv raising after df_states.to_csv wrote its file: the record
\* carries the path of the file that could not be written
CensusMetrosRec == LogRec("error", "Error fetching Census data", {"census_metros_acs"})

\* api_key is None (main passes None): the fetcher returns before any request.
\* With a key: both tables are saved; or the request, the frames or the first
\* to_csv raise and nothing is written; or the second to_csv raises inside
\* the same try after the first wrote the states file
get_census_data(api_key) ==
    /\ stagePc = "get_census_data"
    /\ \E outcome \in IF api_key THEN {"saved", "error", "states_only"} ELSE {"no_key"} :
         Fetch(IF outcome = "states_only" THEN {"census_states_acs"}
               ELSE {"census_states_acs", "census_metros_acs"},
               outcome \in {"saved", "states_only"},
               CASE outcome = "no_key" ->
                      <<LogRec("warning", "No Census API key provided", NoFiles)>>
                 [] outcome = "saved" -> <<>>
                 [] outcome = "error" ->
                      <<LogRec("error", "Error fetching Census data", NoFiles)>>
                 [] OTHER -> <<CensusMetrosRec>>,
               "get_hud_rent_data")

\* os.unlink(tmp_file_path) raising after to_csv: the record carries the path
HudCleanupRec == LogRec("error", "Error fetching HUD data", {"tmp_file_path"})

\* The table is saved; or the archive holds no csv; or the download or the
\* archive raises; or the table is saved and the removal of the temporary
\* archive raises inside the same try, so None is returned all the same
get_hud_rent_data ==
    /\ stagePc = "get_hud_rent_data"
    /\ \E outcome \in {"saved", "no_csv", "error", "cleanup"} :
         Fetch({"hud_fair_market_rent"}, outcome \in {"saved", "cleanup"},
               CASE outcome = "saved" -> <<>>
                 [] outcome = "no_csv" ->
                      <<LogRec("error", "No CSV files found in the HUD ZIP archive", NoFiles)>>
                 [] outcome = "error" ->
                      <<LogRec("error", "Error fetching HUD data", NoFiles)>>
                 [] OTHER -> <<HudCleanupRec>>,
               "get_migration_data")

\* No try/except: a failing to_csv ends the sub-process with a traceback
get_migration_data ==
    /\ pc = "stage"
    /\ stagePc = "get_migration_data"
    /\ \E ioOk \in BOOLEAN :
         /\ raw' = Write(raw, {"synthetic_migration_data"}, ioOk)
         /\ stderr' = IF ioOk THEN stderr
                      ELSE Append(stderr, LogRec("traceback", "OSError", NoFiles))
         /\ StageExit(IF ioOk THEN 0 ELSE 1, stderr')
    /\ UNCHANGED <<tableVars, run, started, exitCode, proc, returned>>

-----------------------------------------------------------------------------
(* process_data.py *)

\* Module level: imports and os.makedirs(PROCESSED_DATA_DIR), which may raise
ProcessDataImport ==
    /\ pc = "stage"
    /\ stagePc = "import"
    /\ \E ok \in BOOLEAN :
         IF ok
         THEN /\ stagePc' = "process_bls_expenditure_data"
              /\ stderr' = stderr
              /\ UNCHANGED <<pc, status, log>>
         ELSE /\ stderr' = Append(stderr, LogRec("traceback", "OSError", NoFiles))
              /\ StageExit(1, stderr')
    /\ returned' = [n \in Normalizers |-> FALSE]
    /\ UNCHANGED <<tableVars, run, started, exitCode, raw, proc>>

\* A normalizer that does not look for its raw file
NormalizeWithoutRaw(n, rawFile, outFiles, absentRec, next) ==
    /\ pc = "stage"
    /\ \E ok \in BOOLEAN :
         /\ proc' = Write(proc, outFiles, ok)
         /\ returned' = [returned EXCEPT ![n] = ok]
         /\ stderr' = IF ok THEN stderr
                      ELSE Append(stderr, LogRec("error", "Error processing BLS data", NoFiles))
    /\ stagePc' = next
    /\ UNCHANGED <<tableVars, run, pc, started, status, exitCode, raw, log>>

\* A normalizer of one raw file into processed files written in one to_csv
\* (process_bls_expenditure_data): absent -> no data; present -> the file is
\* written unless the table operations raise (caught, no data)
Normalize(n, rawFile, outFiles, absentRec, next) ==
    /\ pc = "stage"
    /\ \E ok \in BOOLEAN :
         LET present == Exists(raw, rawFile)
             done    == present /\ ok
         IN /\ proc' = Write(proc, outFiles, done)
            /\ returned' = [returned EXCEPT ![n] = done]
            /\ stderr' = IF done THEN stderr
                         ELSE IF present
                              THEN Append(stderr, LogRec("error", "Error processing BLS data", NoFiles))
                              ELSE Append(stderr, absentRec)
    /\ stagePc' = next
    /\ UNCHANGED <<tableVars, run, pc, started, status, exitCode, raw, log>>

process_bls_expenditure_data ==
    /\ stagePc = "process_bls_expenditure_data"
    /\ Normalize("bls", "bls_consumer_expenditure", {"processed_bls_expenditure"},
                 LogRec("error", "File not found", {"bls_consumer_expenditure"}),
                 "process_census_states")

\* process_census_data, the state block: one try covers both blocks, so an
\* exception here is caught after the metro block was skipped: (None, None)
process_census_states ==
    /\ pc = "stage"
    /\ stagePc = "process_census_states"
    /\ \E ok \in BOOLEAN :
         LET present == Exists(raw, "census_states_acs")
             done    == present /\ ok
         IN /\ proc' = Write(proc, {"processed_states_acs"}, done)
            /\ returned' = [returned EXCEPT !["census_states"] = done]
            /\ stderr' = IF done THEN stderr
                         ELSE IF present
                              THEN Append(stderr, LogRec("error", "Error processing Census data", NoFiles))
                              ELSE Append(stderr, LogRec("warning", "State data file not found",
                                                         {"census_states_acs"}))
            /\ stagePc' = IF present /\ ~ok THEN "process_hud_rent_data"
                          ELSE "process_census_metros"
    /\ UNCHANGED <<tableVars, run, pc, started, status, exitCode, raw, log>>

\* process_census_data, the metro block: an exception here returns
\* (None, None) although the state file may already be written
process_census_metros ==
    /\ pc = "stage"
    /\ stagePc = "process_census_metros"
    /\ \E ok \in BOOLEAN :
         LET present == Exists(raw, "census_metros_acs")
             done    == present /\ ok
         IN /\ proc' = Write(proc, {"processed_metros_acs"}, done)
            /\ returned' = IF present /\ ~ok
                           THEN [returned EXCEPT !["census_states"] = FALSE,
                                                 !["census_metros"] = FALSE]
                           ELSE [returned EXCEPT !["census_metros"] = done]
            /\ stderr' = IF done THEN stderr
                         ELSE IF present
                              THEN Append(stderr, LogRec("error", "Error processing Census data", NoFiles))
                              ELSE Append(stderr, LogRec("warning", "Metro data file not found",
                                                         {"census_metros_acs"}))
    /\ stagePc' = "process_hud_rent_data"
    /\ UNCHANGED <<tableVars, run, pc, started, status, exitCode, raw, log>>

\* process_hud_rent_data: the raw file is absent (warning, None); or read_csv
\* raises (outer except, None); or the selection is saved; or the inner block
\* raises and the inner except logs it and saves the raw table, returning it;
\* or that save raises too and the outer except logs a second error
process_hud_rent_data ==
    /\ pc = "stage"
    /\ stagePc = "process_hud_rent_data"
    /\ \E outcome \in {"selected", "fallback", "fallback_raises", "raises"} :
         LET present == Exists(raw, "hud_fair_market_rent")
             done    == present /\ outcome \in {"selected", "fallback"}
             inner   == LogRec("error", "Error processing HUD columns", NoFiles)
             outer   == LogRec("error", "Error processing HUD data", NoFiles)
         IN /\ proc' = Write(proc, {"processed_hud_rent"}, done)
            /\ returned' = [returned EXCEPT !["hud"] = done]
            /\ stderr' = stderr \o
                  (IF ~present
                   THEN <<LogRec("warning", "HUD rent data file not found",
                                 {"hud_fair_market_rent"})>>
                   ELSE CASE outcome = "selected" -> <<>>
                          [] outcome = "fallback" -> <<inner>>
                          [] outcome = "fallback_raises" -> <<inner, outer>>
                          [] OTHER -> <<outer>>)
    /\ stagePc' = "process_migration_data"
    /\ UNCHANGED <<tableVars, run, pc, started, status, exitCode, raw, log>>

\* The processed files of process_migration_data, in the order of its to_csv calls
MigrationOutputs == <<"processed_migration_inflow", "processed_migration_outflow",
                      "processed_migration_destinations">>

\* process_migration_data: the three views are saved by three to_csv calls in
\* turn; when one raises, the files before it stay written, the error is
\* logged and (None, None, None) is returned. written = 0 is also a read or
\* a group-by that raises
process_migration_data ==
    /\ pc = "stage"
    /\ stagePc = "process_migration_data"
    /\ \E written \in 0..Len(MigrationOutputs) :
         LET present == Exists(raw, "synthetic_migration_data")
             done    == present /\ written = Len(MigrationOutputs)
         IN /\ proc' = Write(proc, {MigrationOutputs[k] : k \in 1..written}, present)
            /\ returned' = [returned EXCEPT !["migration"] = done]
            /\ stderr' = IF done THEN stderr
                         ELSE IF present
                              THEN Append(stderr, LogRec("error", "Error processing migration data",
                                                         NoFiles))
                              ELSE Append(stderr, LogRec("warning", "Migration data file not found",
                                                         {"synthetic_migration_data"}))
    /\ stagePc' = "combine_data_for_analysis"
    /\ UNCHANGED <<tableVars, run, pc, started, status, exitCode, raw, log>>

\* The record logged when a required processed file does not exist
MissingRec == LogRec("error", "Some required processed data files are missing", NoFiles)

\* An existence check that forgets the migration inflow file
TwoRequiredExist ==
    \A f \in RequiredFiles \ {"processed_migration_inflow"} : Exists(proc, f)

\* The existence check of the three required processed files
AllRequiredExist == \A f \in RequiredFiles : Exists(proc, f)

\* A script that exits non-zero when the joiner returned no data
ProcessDataExitOnJoin(combined) == IF combined THEN 0 ELSE 1

\* main() drops combined_data and returns: the script's exit status is 0
ProcessDataExit(combined) == 0

\* combine_data_for_analysis, then main() returns and the script exits 0:
\* main() does not look at combined_data
combine_data_for_analysis ==
    /\ pc = "stage"
    /\ stagePc = "combine_data_for_analysis"
    /\ \E ok \in BOOLEAN :
         LET done == AllRequiredExist /\ ok
         IN /\ proc' = Write(proc, {"combined_analysis_data"}, done)
            /\ returned' = [returned EXCEPT !["combine"] = done]
            /\ stderr' = IF done THEN stderr
                         ELSE IF AllRequiredExist
                              THEN Append(stderr, LogRec("error", "Error combining data", NoFiles))
                              ELSE Append(stderr, MissingRec)
            /\ StageExit(ProcessDataExit(done), stderr')
    /\ UNCHANGED <<tableVars, run, started, exitCode, raw>>

-----------------------------------------------------------------------------
(* Floating-point cells (pandas float64), as exact fractions *)

Abs(x) == IF x < 0 THEN -x ELSE x

RECURSIVE Gcd(_, _)
Gcd(a, b) == IF b = 0 THEN a ELSE Gcd(b, a % b)

NaN == [kind |-> "nan", n |-> 0, d |-> 1]
Inf == [kind |-> "inf", n |-> 1, d |-> 1]
NegInf == [kind |-> "inf", n |-> -1, d |-> 1]

\* The float n/d (d # 0), in lowest terms with a positive denominator
Frac(n, d) ==
    LET g == Gcd(Abs(n), Abs(d))
        sg == IF d < 0 THEN -1 ELSE 1
    IN [kind |-> "num", n |-> sg * (n \div g), d |-> sg * (d \div g)]

Num(x) == Frac(x, 1)

IsNaN(x) == x.kind = "nan"
IsNum(x) == x.kind = "num"

\* x / y on float64 columns: NaN propagates; x/0 is +-inf and 0/0 is NaN;
\* inf/inf is NaN, inf/y is +-inf by the signs, x/inf is 0 (zeros are unsigned
\* here: a zero divisor counts as +0)
FDiv(x, y) ==
    IF IsNaN(x) \/ IsNaN(y) THEN NaN
    ELSE IF ~IsNum(x)
         THEN IF ~IsNum(y) THEN NaN
              ELSE IF (x.n > 0) = (y.n >= 0) THEN Inf ELSE NegInf
    ELSE IF ~IsNum(y) THEN Num(0)
    ELSE IF y.n = 0
         THEN IF x.n = 0 THEN NaN ELSE IF x.n > 0 THEN Inf ELSE NegInf
    ELSE Frac(x.n * y.d, x.d * y.n)

\* x * k and x - k for an integer k
FScale(x, k) ==
    IF IsNum(x) THEN Frac(x.n * k, x.d)
    ELSE IF IsNaN(x) \/ k = 0 THEN NaN
    ELSE IF k > 0 THEN x ELSE [x EXCEPT !.n = -x.n]

FMinus(x, k) == IF IsNum(x) THEN Frac(x.n - k * x.d, x.d) ELSE x

-----------------------------------------------------------------------------
(* Small tables *)

RECURSIVE SortedSeq(_)
\* The elements of a finite set of integers, ascending
SortedSeq(S) ==
    IF S = {} THEN <<>>
    ELSE LET m == CHOOSE x \in S : \A y \in S : x <= y
         IN <<m>> \o SortedSeq(S \ {m})

\* pandas 3.0 removed two behaviours the scripts lean on: pct_change's default
\* fill_method="pad", and in-place updates through a chained df[col] selection
\* (copy-on-write). Which pandas is installed is not fixed by the sources.
PandasGenerations == {2, 3}

-----------------------------------------------------------------------------
(* process_data.py: the expenditure normalizer *)

Categories == {"Food", "Housing"}
BlsYears == {2020, 2021, 2022}
BlsValues == {0, 100, 110}

SeriesRecords == [category : Categories, year : BlsYears, value : BlsValues]

\* get_bls_expenditure_data: all_data.append({category, year, value})
AppendRecord ==
    /\ phase = "input"
    /\ Cardinality(bls_raw) < MaxRecords
    /\ \E r \in SeriesRecords \ bls_raw : bls_raw' = bls_raw \cup {r}
    /\ UNCHANGED <<pandas, phase, bls_out, notBls>>

\* df.pivot raises ValueError when two records share (year, category)
HasDuplicateEntries(df) ==
    \E r1, r2 \in df : r1 # r2 /\ r1.year = r2.year /\ r1.category = r2.category

\* A pivot that fills the missing (year, category) cells with 0
PivotFillZero(df) ==
    LET years == SortedSeq({r.year : r \in df})
        cols  == {r.category : r \in df}
    IN [years |-> years,
        cols  |-> cols,
        val   |-> [c \in cols |->
                     [i \in 1..Len(years) |->
                        IF \E r \in df : r.category = c /\ r.year = years[i]
                        THEN Num((CHOOSE r \in df :
                                    r.category = c /\ r.year = years[i]).value)
                        ELSE Num(0)]]]

\* df.pivot(index='year', columns='category', values='value') and reset_index:
\* one row per year, ascending; one column per category; NaN where the raw
\* table has no record
Pivot(df) ==
    LET years == SortedSeq({r.year : r \in df})
        cols  == {r.category : r \in df}
    IN [years |-> years,
        cols  |-> cols,
        val   |-> [c \in cols |->
                     [i \in 1..Len(years) |->
                        IF \E r \in df : r.category = c /\ r.year = years[i]
                        THEN Num((CHOOSE r \in df :
                                    r.category = c /\ r.year = years[i]).value)
                        ELSE NaN]]]

RECURSIVE Pad(_)
\* Series.ffill: a NaN takes the last value before it, if any
Pad(col) ==
    IF Len(col) <= 1 THEN col
    ELSE LET head == Pad(SubSeq(col, 1, Len(col) - 1))
             last == col[Len(col)]
         IN Append(head, IF IsNaN(last) THEN head[Len(head)] ELSE last)

\* Series.pct_change() * 100: data / data.shift(1) - 1, where data is the
\* column padded first (pandas before 3.0) or as it is (pandas 3)
PctChange(col) ==
    LET data == IF pandas = 2 THEN Pad(col) ELSE col
    IN [i \in 1..Len(col) |->
          IF i = 1 THEN NaN
          ELSE FScale(FMinus(FDiv(data[i], data[i - 1]), 1), 100)]

\* process_bls_expenditure_data: the table written and returned, or none
BlsProcessed(df) ==
    IF df = {} \/ HasDuplicateEntries(df) THEN <<>>
    ELSE LET wide == Pivot(df)
         IN << [years |-> wide.years,
                cols  |-> wide.cols,
                val   |-> wide.val,
                pct   |-> [c \in wide.cols |-> PctChange(wide.val[c])]] >>

ProcessBls ==
    /\ phase = "input"
    /\ bls_out' = BlsProcessed(bls_raw)
    /\ phase' = "done"
    /\ UNCHANGED <<pandas, bls_raw, notBls>>

BlsIdle ==
    /\ bls_raw = {}
    /\ bls_out = <<>>

NextBls ==
    \/ AppendRecord
    \/ ProcessBls

-----------------------------------------------------------------------------
(* process_data.py: the survey normalizer *)

Geographies == {"states", "metros"}

\* The cells of a raw survey column: empty, text that is no number, a number
Cell(kind, v) == [kind |-> kind, v |-> v]
SurveyNumbers == {-1, 0, 1500, 60000}
RawCells == {Cell("empty", 0), Cell("text", 0)} \cup {Cell("num", v) : v \in SurveyNumbers}

\* A Survey Row, as far as the ratio reads it (total_population is coerced
\* the same way and read by nothing)
SurveyRows == [median_household_income : RawCells, median_gross_rent : RawCells]

\* get_census_data: one more row in census_states_acs.csv / census_metros_acs.csv
AppendSurveyRow ==
    /\ phase = "input"
    /\ Len(census_raw["states"]) + Len(census_raw["metros"]) < MaxRows
    /\ \E g \in Geographies, r \in SurveyRows :
         census_raw' = [census_raw EXCEPT ![g] = Append(@, r)]
    /\ UNCHANGED <<pandas, phase, census_out, notCensus>>

\* pd.to_numeric(column, errors='coerce')
ToNumeric(cell) == IF cell.kind = "num" THEN Num(cell.v) ELSE NaN

\* A ratio that is null instead of infinite on a zero income
RentToIncomeRatioGuarded(rent, income) ==
    IF IsNum(income) /\ income.n = 0 THEN NaN ELSE FDiv(FScale(rent, 12), income)

\* (df['median_gross_rent'] * 12) / df['median_household_income']
RentToIncomeRatio(rent, income) == FDiv(FScale(rent, 12), income)

\* The processed rows of one geography
CensusProcessed(df) ==
    [i \in 1..Len(df) |->
       LET income == ToNumeric(df[i].median_household_income)
           rent   == ToNumeric(df[i].median_gross_rent)
       IN [median_household_income |-> income,
           median_gross_rent       |-> rent,
           rent_to_income_ratio    |-> RentToIncomeRatio(rent, income)]]

\* process_census_data with both raw files present: both are processed alike
ProcessCensus ==
    /\ phase = "input"
    /\ census_out' = << [g \in Geographies |-> CensusProcessed(census_raw[g])] >>
    /\ phase' = "done"
    /\ UNCHANGED <<pandas, census_raw, notCensus>>

CensusIdle ==
    /\ census_raw = [g \in Geographies |-> <<>>]
    /\ census_out = <<>>

NextCensus ==
    \/ AppendSurveyRow
    \/ ProcessCensus

-----------------------------------------------------------------------------
(* process_data.py: the migration normalizer *)

MigYears == {2021, 2022}
Origins == {"New York", "Chicago"}
Destinations == {"Austin", "Phoenix"}
MigrantCounts == {0, 3, 5}

MigrationEdges ==
    [year : MigYears, origin_metro : Origins, destination_metro : Destinations,
     num_migrants : MigrantCounts]

\* get_migration_data: data.append({year, origin_metro, destination_metro, num_migrants})
AppendEdge ==
    /\ phase = "input"
    /\ Len(mig_raw) < MaxEdges
    /\ \E e \in MigrationEdges : mig_raw' = Append(mig_raw, e)
    /\ UNCHANGED <<pandas, phase, mig_out, notMig>>

RECURSIVE SumMigrants(_, _, _)
\* ['num_migrants'].sum() over the rows of df whose column col equals key
\* in year y
SumMigrants(df, col, k) ==
    IF df = <<>> THEN 0
    ELSE LET e == df[Len(df)]
             rest == SumMigrants(SubSeq(df, 1, Len(df) - 1), col, k)
         IN IF e[col] = k.metro /\ e.year = k.year THEN rest + e.num_migrants ELSE rest

\* The groups of df.groupby([col, 'year'])
Groups(df, col) == {[metro |-> df[i][col], year |-> df[i].year] : i \in 1..Len(df)}

RECURSIVE LastMigrants(_, _, _)
LastMigrants(df, col, k) ==
    IF df = <<>> THEN 0
    ELSE LET e == df[Len(df)]
         IN IF e[col] = k.metro /\ e.year = k.year THEN e.num_migrants
            ELSE LastMigrants(SubSeq(df, 1, Len(df) - 1), col, k)

\* An inflow view that keeps one edge of each group instead of their sum
InflowByDestLast(df) ==
    {[destination_metro |-> k.metro, year |-> k.year,
      total_inflow |-> LastMigrants(df, "destination_metro", k)] :
        k \in Groups(df, "destination_metro")}

\* df.groupby(['destination_metro', 'year'])['num_migrants'].sum(), renamed
InflowByDest(df) ==
    {[destination_metro |-> k.metro, year |-> k.year,
      total_inflow |-> SumMigrants(df, "destination_metro", k)] :
        k \in Groups(df, "destination_metro")}

\* df.groupby(['origin_metro', 'year'])['num_migrants'].sum(), renamed
OutflowByOrigin(df) ==
    {[origin_metro |-> k.metro, year |-> k.year,
      total_outflow |-> SumMigrants(df, "origin_metro", k)] :
        k \in Groups(df, "origin_metro")}

RECURSIVE SumPair(_, _, _)
SumPair(df, k, dest) ==
    IF df = <<>> THEN 0
    ELSE LET e == df[Len(df)]
             rest == SumPair(SubSeq(df, 1, Len(df) - 1), k, dest)
         IN IF e.origin_metro = k.metro /\ e.year = k.year /\ e.destination_metro = dest
            THEN rest + e.num_migrants ELSE rest

\* df.pivot_table(index=[origin, year], columns=destination, aggfunc='sum',
\* fill_value=0): one row per origin and year, one column per destination
DestTable(df) ==
    LET dests == {df[i].destination_metro : i \in 1..Len(df)}
    IN [k \in Groups(df, "origin_metro") |-> [d \in dests |-> SumPair(df, k, d)]]

\* process_migration_data with the raw file present
ProcessMigration ==
    /\ phase = "input"
    /\ mig_out' = << [inflow_by_dest    |-> InflowByDest(mig_raw),
                      outflow_by_origin |-> OutflowByOrigin(mig_raw),
                      dest_df           |-> DestTable(mig_raw)] >>
    /\ phase' = "done"
    /\ UNCHANGED <<pandas, mig_raw, notMig>>

MigIdle ==
    /\ mig_raw = <<>>
    /\ mig_out = <<>>

NextMig ==
    \/ AppendEdge
    \/ ProcessMigration

-----------------------------------------------------------------------------
(* process_data.py: the joiner *)

UpperCase == {"A", "B", "C", "D", "E", "F", "G", "H", "I", "J", "K", "L", "M",
              "N", "O", "P", "Q", "R", "S", "T", "U", "V", "W", "X", "Y", "Z"}

\* Metro names, as sequences of characters:
\* "Ax, TX", "Ax, NC-SC", "Ax" and "Ax, Tx"
MetroNames ==
    { <<"A", "x", ",", " ", "T", "X">>,
      <<"A", "x", ",", " ", "N", "C", "-", "S", "C">>,
      <<"A", "x">>,
      <<"A", "x", ",", " ", "T", "x">> }

NoName == <<>>

RECURSIVE MatchesCodes(_)
\* (?:-[A-Z]{2})*$ matches the whole of s
MatchesCodes(s) ==
    \/ s = <<>>
    \/ /\ Len(s) >= 3
       /\ s[1] = "-"
       /\ s[2] \in UpperCase
       /\ s[3] \in UpperCase
       /\ MatchesCodes(SubSeq(s, 4, Len(s)))

\* ', [A-Z]{2}(?:-[A-Z]{2})*$' matches the whole of s
MatchesSuffix(s) ==
    /\ Len(s) >= 4
    /\ s[1] = ","
    /\ s[2] = " "
    /\ s[3] \in UpperCase
    /\ s[4] \in UpperCase
    /\ MatchesCodes(SubSeq(s, 5, Len(s)))

\* .str.replace(r', [A-Z]{2}(?:-[A-Z]{2})*$', '', regex=True): the leftmost
\* match that reaches the end of the name is removed
StripSuffix(name) ==
    LET starts == {i \in 1..Len(name) : MatchesSuffix(SubSeq(name, i, Len(name)))}
    IN IF starts = {} THEN name
       ELSE SubSeq(name, 1, (CHOOSE i \in starts : \A j \in starts : i <= j) - 1)

InflowTotals == {0, 7}

InflowRows == [destination_metro : MetroNames, year : MigYears, total_inflow : InflowTotals]

\* processed_bls_expenditure.csv: one more year row
AddBlsYear ==
    /\ phase = "input"
    /\ \E y \in MigYears \ bls_years : bls_years' = bls_years \cup {y}
    /\ UNCHANGED <<pandas, phase, metros_data, inflow_data, merged_data, notJoin>>

\* processed_metros_acs.csv: one more survey row
AddMetroRow ==
    /\ phase = "input"
    /\ Len(metros_data) < MaxMetros
    /\ \E n \in MetroNames : metros_data' = Append(metros_data, n)
    /\ UNCHANGED <<pandas, phase, bls_years, inflow_data, merged_data, notJoin>>

\* processed_migration_inflow.csv: one more (destination, year) group
AddInflowRow ==
    /\ phase = "input"
    /\ Cardinality(inflow_data) < MaxInflow
    /\ \E r \in InflowRows :
         /\ ~\E q \in inflow_data :
                q.destination_metro = r.destination_metro /\ q.year = r.year
         /\ inflow_data' = inflow_data \cup {r}
    /\ UNCHANGED <<pandas, phase, bls_years, metros_data, merged_data, notJoin>>

\* bls_data['year'].max()
MaxYear(years) == CHOOSE y \in years : \A z \in years : z <= y

RECURSIVE SetToSeq(_)
SetToSeq(S) ==
    IF S = {} THEN <<>>
    ELSE LET x == CHOOSE y \in S : TRUE IN <<x>> \o SetToSeq(S \ {x})

\* The right rows a left row joins: equal cleaned names and equal years
MatchesOf(name, year, right) ==
    {r \in right : StripSuffix(r.destination_metro) = StripSuffix(name) /\ r.year = year}

\* The rows pd.merge(how='left') makes of left row i
JoinedRows(i, name, year, right) ==
    LET ms == MatchesOf(name, year, right)
    IN IF ms = {}
       THEN << [row |-> i, metro_name |-> name, year |-> year,
                destination_metro |-> NoName, total_inflow |-> NaN] >>
       ELSE LET s == SetToSeq(ms)
            IN [k \in 1..Len(s) |->
                  [row |-> i, metro_name |-> name, year |-> year,
                   destination_metro |-> s[k].destination_metro,
                   total_inflow |-> Num(s[k].total_inflow)]]

RECURSIVE Merge(_, _, _, _)
\* pd.merge(metros_data, inflow_data, left_on=[clean, year], right_on=[clean, year],
\* how='left'): the left rows in order, each with its matches
Merge(left, i, year, right) ==
    IF i > Len(left) THEN <<>>
    ELSE JoinedRows(i, left[i], year, right) \o Merge(left, i + 1, year, right)

\* merged_data['total_inflow'].fillna(0, inplace=True): an in-place update
\* through a chained selection. Before pandas 3.0 it reaches merged_data; under
\* copy-on-write (pandas 3) it updates a temporary and merged_data keeps its NaN
FillNa(df) ==
    IF pandas = 2
    THEN [k \in 1..Len(df) |->
            IF IsNaN(df[k].total_inflow) THEN [df[k] EXCEPT !.total_inflow = Num(0)]
            ELSE df[k]]
    ELSE df

\* combine_data_for_analysis with the three processed files present
Combine ==
    /\ phase = "input"
    /\ bls_years # {}
    /\ merged_data' = << FillNa(Merge(metros_data, 1, MaxYear(bls_years), inflow_data)) >>
    /\ phase' = "done"
    /\ UNCHANGED <<pandas, bls_years, metros_data, inflow_data, notJoin>>

JoinIdle ==
    /\ bls_years = {}
    /\ metros_data = <<>>
    /\ inflow_data = {}
    /\ merged_data = <<>>

NextJoin ==
    \/ AddBlsYear
    \/ AddMetroRow
    \/ AddInflowRow
    \/ Combine

-----------------------------------------------------------------------------
(* acquire_data.py: the migration fetcher *)

outflow_metros ==
    << "New York-Newark-Jersey City, NY-NJ-PA",
       "Los Angeles-Long Beach-Anaheim, CA",
       "Chicago-Naperville-Elgin, IL-IN-WI",
       "San Francisco-Oakland-Berkeley, CA",
       "Boston-Cambridge-Newton, MA-NH" >>

inflow_metros ==
    << "Austin-Round Rock-Georgetown, TX",
       "Phoenix-Mesa-Chandler, AZ",
       "Nashville-Davidson--Murfreesboro--Franklin, TN",
       "Raleigh-Cary, NC",
       "Tampa-St. Petersburg-Clearwater, FL",
       "Dallas-Fort Worth-Arlington, TX",
       "Charlotte-Concord-Gastonia, NC-SC",
       "Jacksonville, FL",
       "Salt Lake City, UT",
       "Denver-Aurora-Lakewood, CO" >>

SeedValue == 42
FirstYear == 2018
LastYear == 2022

\* np.random's global generator (the legacy MT19937 RandomState), reduced to
\* its position on a cycle of RngModulus states; a draw reads the state and
\* advances it by one
RngStates == 0..(RngModulus - 1)
Advance(s) == (s + 1) % RngModulus

\* The generator's state after k draws from state s: Advance applied k times
StateAfter(s, k) == (s + k) % RngModulus

\* The standard normal deviates np.random.normal draws after np.random.seed(42),
\* in order, in units of 10^-8 (rounded): the first is 0.4967141530112327
Deviates ==
    << 49671415, -13826430, 64768854, 152302986, -23415337, -23413696,
       157921282, 76743473, -46947439, 54256004, -46341769, -46572975,
       24196227, -191328024, -172491783, -56228753, -101283112, 31424733,
       -90802408, -141230370, 146564877, -22577630, 6752820, -142474819,
       -54438272, 11092259, -115099358, 37569802, -60063869, -29169375,
       -60170661, 185227818, -1349722, -105771093, 82254491, -122084365,
       20886360, -195967012, -132818605, 19686124, 73846658, 17136828,
       -11564828, -30110370, -147852199, -71984421, -46063877, 105712223,
       34361829, -176304016, 32408397, -38508228, -67692200, 61167629,
       103099952, 93128012, -83921752, -30921238, 33126343, 97554513,
       -47917424, -18565898, -110633497, -119620662, 81252582, 135624003,
       -7201012, 100353290, 36163603, -64511975, 36139561, 153803657,
       -3582604, 156464366, -261974510, 82190250, 8704707, -29900735,
       9176078, -198756891, -21967189, 35711257, 147789404, -51827022,
       -80849360, -50175704, 91540212, 32875111, -52976020, 51326743,
       9707755, 96864499, -70205309, -32766215, -39210815, -146351495,
       29612028, 26105527, 511346, -23458713, -141537074, -42064532,
       -34271452, -80227727, -16128571, 40405086, 188618590, 17457781,
       25755039, -7444592, -191877122, -2651388, 6023021, 246324211,
       -19236096, 30154734, -3471177, -116867804, 114282281, 75193303,
       79103195, -90938745, 140279431, -140185106, 58685709, 219045563,
       -99053633, -56629773, 9965137, -50347565, -155066343, 6856297,
       -106230371, 47359243, -91942423, 154993441, -78325329, -32206152,
       81351722, -123086432, 22745993, 130714275, -160748323, 18463386,
       25988279, 78182287, -123695071, -132045661, 52194157, 29698467,
       25049285, 34644821, -68002472, 23225370, 29307247, -71435142,
       186577451, 47383292, -119130350, 65655361, -97468167, 78708460,
       115859558, -82068232, 96337613, 41278093, 82206016, 189679298,
       -24538812, -75373616, -88951443, -81581028, -7710171, 34115197,
       27669080, 82718325, 1300189, 145353408, -26465683, 272016917,
       62566735, -85715756, -107089250, 48247242, -22346279, 71400049,
       47323762, -7282891, -84679372, -151484722, -44651495, 85639879,
       21409374, -124573878, 17318093, 38531738, -88385744, 15372511,
       5820872, -114297030, 35778736, 56078453, 108305124, 105380205,
       -137766937, -93782504, 51503527, 51378595, 51504769, 385273149,
       57089051, 113556564, 95400176, 65139125, -31526924, 75896922,
       -77282521, -23681861, -48536355, 8187414, 231465857, -186726519,
       68626019, -161271587, -47193187, 108895060, 6428002, -107774478,
       -71530371, 67959775, -73036663, 21645859, 4557184, -65160035,
       214394409, 63391902, -202514259, 18645431, -66178646, 85243333,
       -79252074, -11473644, 50498728, 86575519, -120029641, -33450124,
       -47494531, -65332923, 176545424, 40498171, -126088395, 91786195,
       212215620, 103246526, -151936997, -48423407, 126691115, -70766947,
       44381943, 77463405, -92693047, -5952536, -324126734, -102438764,
       -25256815, -124778318, 163241130, -143014138, -44004449, 13074058,
       144127329, -143586215, 116316375, 1023306, -98150865 >>

\* The deviate a state yields: state SeedValue yields the first of Deviates;
\* a state off the seeded stream (another seed, OS entropy) yields the
\* deviate of its position on the cycle
Deviate(s) == Deviates[(((s - SeedValue) % RngModulus) % Len(Deviates)) + 1]

\* np.random.normal(1, scale / 10), in units of 10^-9: 1 + (scale / 10) * deviate
Normal(scale, s) == 1000000000 + scale * Deviate(s)

\* A seed call that leaves the generator where it is
SeedRngIgnored(seed) == rng

\* np.random.seed(seed): the generator's state is a function of the seed alone
SeedRng(seed) == seed % RngModulus

Max(a, b) == IF a >= b THEN a ELSE b

RECURSIVE MulShift(_, _, _, _)
\* floor((a * n + c) / 10^k) for a, n, c >= 0, one decimal digit of n at a time
MulShift(a, n, k, c) ==
    IF k = 0 THEN a * n + c
    ELSE MulShift(a, n \div 10, k - 1, (a * (n % 10) + c) \div 10)

\* int(a * n / 10^k): truncation toward zero of the product
IntOfProduct(a, n, k) ==
    LET m == MulShift(Abs(a), Abs(n), k, 0)
    IN IF (a < 0) # (n < 0) THEN -m ELSE m

\* Base outflow population, by the metro the origin's name contains
Base(origin) ==
    CASE origin = "New York-Newark-Jersey City, NY-NJ-PA" -> 120000
      [] origin = "Los Angeles-Long Beach-Anaheim, CA" -> 100000
      [] origin = "Chicago-Naperville-Elgin, IL-IN-WI" -> 80000
      [] origin = "San Francisco-Oakland-Berkeley, CA" -> 70000
      [] OTHER -> 50000

\* The destination's proportion, in hundredths
Prop(dest) ==
    IF dest = "Austin-Round Rock-Georgetown, TX" THEN 18
    ELSE IF dest \in {"Phoenix-Mesa-Chandler, AZ", "Tampa-St. Petersburg-Clearwater, FL"} THEN 15
    ELSE IF dest \in {"Raleigh-Cary, NC", "Dallas-Fort Worth-Arlington, TX"} THEN 12
    ELSE 8

\* outflow_factor = 1 + 0.15 * (year - 2018), in hundredths
OutflowFactor(year) == 100 + 15 * (year - FirstYear)

\* outflow = int(base * outflow_factor * np.random.normal(1, 0.1)); the bases
\* are whole hundreds, so base * outflow_factor is a whole number
Outflow(origin, year, s) ==
    IntOfProduct((Base(origin) \div 100) * OutflowFactor(year), Normal(1, s), 9)

\* prop = prop * np.random.normal(1, 0.2); migrants = max(int(outflow * prop), 0)
Migrants(outflow, dest, s) ==
    Max(IntOfProduct(outflow * Prop(dest), Normal(2, s), 11), 0)

\* Draws per origin: one for the outflow, then one per destination
DrawsPerOrigin == 1 + Len(inflow_metros)

\* The loops of get_migration_data from generator state s: for year in
\* range(2018, 2023), for origin in outflow_metros (one draw), for dest in
\* inflow_metros (one draw each); block b (from 0) is the b-th (year, origin)
Generate(s) ==
    LET years  == LastYear - FirstYear + 1
        blocks == years * Len(outflow_metros)
        draws  == [i \in 1..(blocks * DrawsPerOrigin) |-> StateAfter(s, i - 1)]
        edge(b, di) ==
            LET year    == FirstYear + (b \div Len(outflow_metros))
                origin  == outflow_metros[(b % Len(outflow_metros)) + 1]
                outflow == Outflow(origin, year, draws[b * DrawsPerOrigin + 1])
            IN [year |-> year, origin_metro |-> origin,
                destination_metro |-> inflow_metros[di],
                num_migrants |-> Migrants(outflow, inflow_metros[di],
                                          draws[b * DrawsPerOrigin + 1 + di])]
    IN [rng  |-> Advance(draws[Len(draws)]),
        data |-> [k \in 1..(blocks * Len(inflow_metros)) |->
                    edge((k - 1) \div Len(inflow_metros),
                         ((k - 1) % Len(inflow_metros)) + 1)]]

\* get_migration_data(): the generator is seeded, the edges are generated and
\* written, and the DataFrame is returned
GetMigrationData ==
    /\ calls < MaxCalls
    /\ LET g == Generate(SeedRng(SeedValue))
       IN /\ rng' = g.rng
          /\ gen_last' = <<g.data>>
          /\ gen_first' = IF gen_first = <<>> THEN <<g.data>> ELSE gen_first
    /\ calls' = calls + 1
    /\ UNCHANGED <<pandas, phase, notGen>>

\* A new Python process: numpy seeds its global generator from OS entropy
ProcessStart ==
    /\ \E s \in RngStates : rng' = s
    /\ UNCHANGED <<calls, gen_first, gen_last, pandas, phase, notGen>>

GenIdle ==
    /\ rng = 0
    /\ calls = 0
    /\ gen_first = <<>>
    /\ gen_last = <<>>

NextGen ==
    \/ GetMigrationData
    \/ ProcessStart

-----------------------------------------------------------------------------
(* process_data.py: the rent benchmark normalizer *)

\* cols_to_keep before filtering
AllowList == <<"area_name", "state", "county_code",
               "fmr_0", "fmr_1", "fmr_2", "fmr_3", "fmr_4">>

\* col.startswith('fmr_'), over the names a table here can carry
StartsWithFmr(col) == col \in {"fmr_0", "fmr_1", "fmr_2", "fmr_3", "fmr_4"}

\* The columns a raw table is drawn from: two of the allow-list's names, two
\* of its rent columns and one name the allow-list does not have
HudColumns == {"area_name", "fmr_0", "fmr_1", "fips_code"}

\* A cell that read_csv leaves as text ('$1,200', a name): its column is object
Text == [kind |-> "text", n |-> 0, d |-> 1]

\* The cells of a column: names are text; a rent is a number, empty or text
HudCells(col) ==
    IF StartsWithFmr(col) THEN {Num(1000), Num(1300), NaN, Text} ELSE {Text}

Range(s) == {s[i] : i \in 1..Len(s)}

\* The header of hud_fair_market_rent.csv: one more column
AddHudColumn ==
    /\ phase = "input"
    /\ hud_raw.rows = <<>>
    /\ \E c \in HudColumns \ Range(hud_raw.cols) :
         hud_raw' = [hud_raw EXCEPT !.cols = Append(@, c)]
    /\ UNCHANGED <<pandas, phase, hud_out, notHud>>

\* One more row under the header
AddHudRow ==
    /\ phase = "input"
    /\ hud_raw.cols # <<>>
    /\ Len(hud_raw.rows) < MaxHudRows
    /\ \E r \in [Range(hud_raw.cols) -> UNION {HudCells(c) : c \in HudColumns}] :
         /\ \A c \in Range(hud_raw.cols) : r[c] \in HudCells(c)
         /\ hud_raw' = [hud_raw EXCEPT !.rows = Append(@, r)]
    /\ UNCHANGED <<pandas, phase, hud_out, notHud>>

\* [col for col in cols_to_keep if col in df.columns]
ColsToKeep(df) == SelectSeq(AllowList, LAMBDA c : c \in Range(df.cols))

\* [col for col in processed_df.columns if col.startswith('fmr_')]
RentCols(df) == SelectSeq(ColsToKeep(df), StartsWithFmr)

\* processed_df[rent_cols].mean(axis=1) raises TypeError when a rent column
\* is not numeric (object dtype: some cell of it is text)
MeanRaises(df) ==
    \E k \in 1..Len(RentCols(df)) :
        \E i \in 1..Len(df.rows) : df.rows[i][RentCols(df)[k]] = Text

RECURSIVE SumCells(_, _)
\* The sum of the numerators of the non-null cells of row at cols (whole numbers)
SumCells(row, cols) ==
    IF cols = <<>> THEN 0
    ELSE (IF IsNum(row[cols[1]]) THEN row[cols[1]].n ELSE 0) + SumCells(row, Tail(cols))

\* mean(axis=1) with skipna: the mean of the row's non-null rents, null if none
RowMean(row, cols) ==
    LET count == Cardinality({k \in 1..Len(cols) : IsNum(row[cols[k]])})
    IN IF count = 0 THEN NaN ELSE Frac(SumCells(row, cols), count)

\* The inner try: the projection on the allow-list columns present, with
\* avg_rent when there is a rent column
HudSelected(df) ==
    LET keep == ColsToKeep(df)
        rent == RentCols(df)
        cols == IF rent # <<>> THEN Append(keep, "avg_rent") ELSE keep
    IN [cols |-> cols,
        rows |-> [i \in 1..Len(df.rows) |->
                    [c \in Range(cols) |->
                       IF c = "avg_rent" THEN RowMean(df.rows[i], rent)
                       ELSE df.rows[i][c]]]]

\* process_hud_rent_data on a raw table: the inner except saves df as it is
HudProcessed(df) == IF MeanRaises(df) THEN df ELSE HudSelected(df)

\* process_hud_rent_data with the raw file present and a header in it
ProcessHud ==
    /\ phase = "input"
    /\ hud_raw.cols # <<>>
    /\ hud_out' = << HudProcessed(hud_raw) >>
    /\ phase' = "done"
    /\ UNCHANGED <<pandas, hud_raw, notHud>>

HudIdle ==
    /\ hud_raw = [cols |-> <<>>, rows |-> <<>>]
    /\ hud_out = <<>>

NextHud ==
    \/ AddHudColumn
    \/ AddHudRow
    \/ ProcessHud

-----------------------------------------------------------------------------
(* Specifications over the tables *)

PipeIdle ==
    /\ run = 0
    /\ pc = "idle"
    /\ stagePc = "none"
    /\ started = <<>>
    /\ status = [i \in 1..Len(Stages) |-> NotRun]
    /\ exitCode = NotRun
    /\ raw = [f \in RawFiles |-> Absent]
    /\ proc = [f \in ProcessedFiles |-> Absent]
    /\ stderr = <<>>
    /\ returned = [n \in Normalizers |-> FALSE]
    /\ log = <<>>

OtherTablesIdle ==
    /\ BlsIdle
    /\ CensusIdle
    /\ MigIdle
    /\ JoinIdle
    /\ HudIdle

TablesIdle ==
    /\ pandas = 2
    /\ GenIdle
    /\ phase = "input"
    /\ OtherTablesIdle

\* The expenditure normalizer on every raw table of up to MaxRecords records
InitBls ==
    /\ PipeIdle
    /\ GenIdle
    /\ pandas \in PandasGenerations
    /\ phase = "input"
    /\ OtherTablesIdle

SpecBls == InitBls /\ [][NextBls]_vars

\* The survey normalizer on every pair of raw tables of up to MaxRows rows
InitCensus ==
    /\ PipeIdle
    /\ GenIdle
    /\ pandas \in PandasGenerations
    /\ phase = "input"
    /\ OtherTablesIdle

SpecCensus == InitCensus /\ [][NextCensus]_vars

\* The migration normalizer on every raw table of up to MaxEdges edges
InitMig ==
    /\ PipeIdle
    /\ GenIdle
    /\ pandas \in PandasGenerations
    /\ phase = "input"
    /\ OtherTablesIdle

SpecMig == InitMig /\ [][NextMig]_vars

\* The joiner on every metro table of up to MaxMetros rows and inflow table of
\* up to MaxInflow groups
InitJoin ==
    /\ PipeIdle
    /\ GenIdle
    /\ pandas \in PandasGenerations
    /\ phase = "input"
    /\ OtherTablesIdle

SpecJoin == InitJoin /\ [][NextJoin]_vars

\* The migration fetcher, called up to MaxCalls times over any number of
\* processes, each starting with its generator in any state
InitGen ==
    /\ PipeIdle
    /\ pandas = 2
    /\ phase = "input"
    /\ OtherTablesIdle
    /\ rng \in RngStates
    /\ calls = 0
    /\ gen_first = <<>>
    /\ gen_last = <<>>

SpecGen == InitGen /\ [][NextGen]_vars

\* The rent benchmark normalizer on every raw table over HudColumns of up to
\* MaxHudRows rows
InitHud ==
    /\ PipeIdle
    /\ GenIdle
    /\ pandas \in PandasGenerations
    /\ phase = "input"
    /\ OtherTablesIdle

SpecHud == InitHud /\ [][NextHud]_vars

-----------------------------------------------------------------------------
(* The pipeline *)

\* The raw store may already hold files (a survey download made with an API
\* key, an earlier checkout); the processed store starts empty.
PipeInit ==
    /\ run = 0
    /\ pc = "idle"
    /\ stagePc = "none"
    /\ started = <<>>
    /\ status = [i \in 1..Len(Stages) |-> NotRun]
    /\ exitCode = NotRun
    /\ raw \in [RawFiles -> {Absent, 0}]
    /\ proc = [f \in ProcessedFiles |-> Absent]
    /\ stderr = <<>>
    /\ returned = [n \in Normalizers |-> FALSE]
    /\ log = <<>>

Next ==
    \/ DriverStart
    \/ RunScript
    \/ DriverExit
    \/ ExternalStage
    \/ AcquireDataImport
    \/ get_bls_expenditure_data
    \/ get_census_data(FALSE)
    \/ get_hud_rent_data
    \/ get_migration_data
    \/ ProcessDataImport
    \/ process_bls_expenditure_data
    \/ process_census_states
    \/ process_census_metros
    \/ process_hud_rent_data
    \/ process_migration_data
    \/ combine_data_for_analysis

\* The pipeline specification keeps the table variables fixed.
Init ==
    /\ PipeInit
    /\ TablesIdle


Spec == Init /\ [][Next]_vars

-----------------------------------------------------------------------------
(* Claims about the pipeline *)

Running == pc = "stage"

SomeRequiredMissing == \E f \in RequiredFiles : proc[f] = Absent

\* The joiner has just run in this run and found a required file missing
\* (nothing after it in process_data.py writes a required file)
JoinerFoundMissing ==
    /\ Len(started) = 2
    /\ status[2] # NotRun
    /\ stderr # <<>>
    /\ stderr[Len(stderr)] = MissingRec

\* C1: the stages are started in the fixed order 1, 2, 3, 4, each at most
\* once; while one runs every earlier one has terminated; and a stage is
\* started only if every earlier stage terminated with status zero, so no
\* stage follows one that terminated non-zero.
C1_StagesInOrder ==
    /\ Len(started) <= Len(Stages)
    /\ \A i \in 1..Len(started) : started[i] = i
    /\ \A i \in 1..Len(started) : \A j \in 1..(i - 1) : status[j] = 0
    /\ \A i \in 1..Len(Stages) :
          status[i] = NotRun <=> (i > Len(started) \/ (i = Len(started) /\ Running))
    /\ Running => Len(started) >= 1

C1_Witness ==
    /\ pc = "done"
    /\ started = <<1, 2>>
    /\ status[1] = 0
    /\ status[2] = 1

\* C2: the driver exits 0 exactly when all four stages were run and each
\* terminated with status zero; otherwise it exits non-zero.
C2_ExitStatus ==
    pc = "done" =>
        /\ exitCode # NotRun
        /\ exitCode = 0 <=>
              (Len(started) = Len(Stages) /\ \A i \in 1..Len(Stages) : status[i] = 0)

C2_Witness ==
    /\ pc = "done"
    /\ exitCode = 1
    /\ Len(started) = 3

\* C4 as claimed: when a required processed file is missing the join returns
\* no data, writes no combined file, and the logged error names the missing
\* files.
C4_ReportsWhich ==
    JoinerFoundMissing =>
        /\ ~returned["combine"]
        /\ proc["combined_analysis_data"] # run
        /\ \E k \in 1..Len(stderr) :
              stderr[k].files = {f \in RequiredFiles : ~Exists(proc, f)}

\* C4 amended: when a required processed file is missing the join returns no
\* data and writes no combined file; it is never attempted with a file
\* missing; the error logged is the generic record, which names no file.
C4_FailsGeneric ==
    /\ (Len(started) = 2 /\ status[2] = 0 /\ SomeRequiredMissing) =>
          /\ JoinerFoundMissing
          /\ ~returned["combine"]
          /\ proc["combined_analysis_data"] # run
    /\ JoinerFoundMissing =>
          /\ SomeRequiredMissing
          /\ stderr[Len(stderr)].files = NoFiles

C4_Witness ==
    /\ JoinerFoundMissing
    /\ Exists(proc, "processed_bls_expenditure")
    /\ Exists(proc, "processed_metros_acs")
    /\ ~Exists(proc, "processed_migration_inflow")

\* The acquisition script ends non-zero only by get_migration_data's own
\* uncaught error: a failed network fetcher is logged and the next one runs.
FetcherFailureDoesNotAbort ==
    /\ (Len(started) = 1 /\ status[1] \notin {NotRun, 0}) =>
          (stderr # <<>> /\ stderr[Len(stderr)].level = "traceback")
    /\ (Len(started) = 1 /\ Running /\ stderr # <<>>) =>
          stagePc \in {"get_census_data", "get_hud_rent_data", "get_migration_data"}

\* C5 as claimed: a fetcher's failure does not abort acquisition, and once
\* the joiner has found a required file missing no later stage is started.
C5_AbortsOnMissing ==
    /\ FetcherFailureDoesNotAbort
    /\ (status[2] # NotRun /\ SomeRequiredMissing) => Len(started) <= 2 /\ NextStage = 0

\* C5 amended: a fetcher's failure does not abort acquisition; when the
\* joiner finds a required file missing the processing script still exits 0
\* and the driver goes on to start visualization.
C5_ContinuesOnMissing ==
    /\ FetcherFailureDoesNotAbort
    /\ JoinerFoundMissing => (status[2] = 0 /\ pc = "main" /\ NextStage = 3)

C5_Witness ==
    /\ SomeRequiredMissing
    /\ Len(started) >= 3
    /\ status[1] = 0
    /\ status[2] = 0

-----------------------------------------------------------------------------
(* Claims about the expenditure normalizer *)

BlsDone == phase = "done" /\ bls_out # <<>>

\* (value[i] - value[i-1]) / value[i-1] * 100 for float cells, value[i-1] # 0
ExpectedPct(cur, prev) ==
    IF IsNaN(cur) THEN NaN
    ELSE Frac((cur.n * prev.d - prev.n * cur.d) * 100 * prev.d, prev.n * cur.d * prev.d)

\* C6: in the normalizer's output every category's percent-change column is
\* null at the first row; at a row i > 0 it is null whenever value[i-1] is
\* null, and equals (value[i] - value[i-1]) / value[i-1] * 100 whenever
\* value[i-1] is neither null nor zero.
C6_PctChange ==
    BlsDone =>
        LET t == bls_out[1]
        IN \A c \in t.cols :
             /\ IsNaN(t.pct[c][1])
             /\ \A i \in 2..Len(t.years) :
                  /\ IsNaN(t.val[c][i - 1]) => IsNaN(t.pct[c][i])
                  /\ (IsNum(t.val[c][i - 1]) /\ t.val[c][i - 1].n # 0) =>
                        t.pct[c][i] = ExpectedPct(t.val[c][i], t.val[c][i - 1])

\* The long form of the raw table, and of a wide table melted back
\* (pandas.melt keeps every cell of the wide table, the null ones too)
RawTriples ==
    {[category |-> r.category, year |-> r.year, value |-> Num(r.value)] : r \in bls_raw}

Melt(t) ==
    UNION {{[category |-> c, year |-> t.years[i], value |-> t.val[c][i]] :
              i \in 1..Len(t.years)} : c \in t.cols}

ValidSeries == bls_raw # {} /\ ~HasDuplicateEntries(bls_raw)

\* C9 as claimed: for valid Series Records (one record per category and
\* year), the wide table melted back is exactly the original set of triples.
C9_RoundTripExact ==
    (phase = "done" /\ ValidSeries) =>
        (bls_out # <<>> /\ Melt(bls_out[1]) = RawTriples)

\* C9 amended: every original triple is recovered unaltered, and the only
\* triples added are null-valued ones for the (category, year) combinations
\* the records do not cover; without those the original set is recovered.
C9_RoundTripUpToNulls ==
    (phase = "done" /\ ValidSeries) =>
        /\ bls_out # <<>>
        /\ RawTriples \subseteq Melt(bls_out[1])
        /\ \A t \in Melt(bls_out[1]) \ RawTriples :
             /\ IsNaN(t.value)
             /\ ~\E r \in bls_raw : r.category = t.category /\ r.year = t.year
        /\ {t \in Melt(bls_out[1]) : ~IsNaN(t.value)} = RawTriples

C9_Witness ==
    /\ BlsDone
    /\ Cardinality(bls_raw) = 3
    /\ Cardinality(Melt(bls_out[1])) = 4

-----------------------------------------------------------------------------
(* Claims about the survey normalizer *)

OutRows ==
    IF census_out = <<>> THEN {}
    ELSE UNION {{census_out[1][g][i] : i \in 1..Len(census_out[1][g])} : g \in Geographies}

IsZero(x) == IsNum(x) /\ x.n = 0

\* (median_gross_rent * 12) / median_household_income, income not null or zero
ExpectedRatio(r) ==
    IF IsNaN(r.median_gross_rent) THEN NaN
    ELSE Frac(r.median_gross_rent.n * 12 * r.median_household_income.d,
              r.median_gross_rent.d * r.median_household_income.n)

\* C7 as claimed: for every survey row, states and metros alike, the ratio is
\* null whenever the income is null or zero and otherwise equals
\* (median_gross_rent * 12) / median_household_income; it never raises.
C7_NullOnZeroIncome ==
    phase = "done" =>
        /\ census_out # <<>>
        /\ \A r \in OutRows :
             IF IsNaN(r.median_household_income) \/ IsZero(r.median_household_income)
             THEN IsNaN(r.rent_to_income_ratio)
             ELSE r.rent_to_income_ratio = ExpectedRatio(r)

\* C7 amended: the ratio is null when the income is null, when the rent is
\* null, and when both are zero; with a zero income and a non-zero rent it is
\* infinite with the sign of the rent; otherwise it equals
\* (median_gross_rent * 12) / median_household_income; it never raises and
\* every raw row yields one processed row.
C7_InfiniteOnZeroIncome ==
    phase = "done" =>
        /\ census_out # <<>>
        /\ \A g \in Geographies : Len(census_out[1][g]) = Len(census_raw[g])
        /\ \A r \in OutRows :
             IF IsNaN(r.median_household_income) \/ IsNaN(r.median_gross_rent)
             THEN IsNaN(r.rent_to_income_ratio)
             ELSE IF IsZero(r.median_household_income)
             THEN IF IsZero(r.median_gross_rent) THEN IsNaN(r.rent_to_income_ratio)
                  ELSE IF r.median_gross_rent.n > 0 THEN r.rent_to_income_ratio = Inf
                  ELSE r.rent_to_income_ratio = NegInf
             ELSE r.rent_to_income_ratio = ExpectedRatio(r)

C7_Witness ==
    /\ phase = "done"
    /\ \E r \in OutRows :
         /\ IsZero(r.median_household_income)
         /\ r.median_gross_rent = Num(1500)
         /\ r.rent_to_income_ratio = Inf
    /\ \E r \in OutRows :
         /\ r.median_household_income = Num(60000)
         /\ r.median_gross_rent = Num(1500)
         /\ r.rent_to_income_ratio = Frac(3, 10)

-----------------------------------------------------------------------------
(* Claims about the migration normalizer *)

RECURSIVE SumField(_, _)
\* The sum of a numeric field over a finite set of rows
SumField(rows, field) ==
    IF rows = {} THEN 0
    ELSE LET r == CHOOSE x \in rows : TRUE
         IN r[field] + SumField(rows \ {r}, field)

RECURSIVE SumYear(_, _)
\* The sum of num_migrants over the raw edges of year y
SumYear(df, y) ==
    IF df = <<>> THEN 0
    ELSE (IF df[1].year = y THEN df[1].num_migrants ELSE 0) + SumYear(Tail(df), y)

\* C8: for every year, the total_inflow values of the inflow view and the
\* total_outflow values of the outflow view both add up to the num_migrants
\* of the raw edges of that year.
C8_Conservation ==
    phase = "done" =>
        /\ mig_out # <<>>
        /\ \A y \in MigYears :
             /\ SumField({r \in mig_out[1].inflow_by_dest : r.year = y}, "total_inflow")
                  = SumYear(mig_raw, y)
             /\ SumField({r \in mig_out[1].outflow_by_origin : r.year = y}, "total_outflow")
                  = SumYear(mig_raw, y)

C8_Witness ==
    /\ phase = "done"
    /\ Len(mig_raw) = 3
    /\ Cardinality(mig_out[1].inflow_by_dest) = 1
    /\ Cardinality(mig_out[1].outflow_by_origin) = 2
    /\ \E r \in mig_out[1].inflow_by_dest : r.total_inflow = 13

-----------------------------------------------------------------------------
(* Claims about the joiner *)

\* The inflow rows the claim attaches to a survey row: equal suffix-stripped
\* names, and the most recent expenditure year
ClaimedMatches(name) ==
    {r \in inflow_data :
        /\ StripSuffix(r.destination_metro) = StripSuffix(name)
        /\ \A y \in bls_years : y <= r.year
        /\ r.year \in bls_years}

\* The positions of the combined rows made of survey row i
RowsOf(i) == {k \in 1..Len(merged_data[1]) : merged_data[1][k].row = i}

\* C3: every survey row appears in the combined output exactly once per
\* inflow row with the same suffix-stripped name and the most recent
\* expenditure year, carrying that row's total_inflow, and exactly once with
\* total_inflow = 0 if there is none; no survey row is dropped, no row is
\* added, and total_inflow is never null.
C3_LeftJoin ==
    (phase = "done" /\ merged_data # <<>>) =>
        LET out == merged_data[1]
        IN /\ \A k \in 1..Len(out) :
                /\ out[k].row \in 1..Len(metros_data)
                /\ out[k].metro_name = metros_data[out[k].row]
                /\ ~IsNaN(out[k].total_inflow)
           /\ \A i \in 1..Len(metros_data) :
                LET ms == ClaimedMatches(metros_data[i])
                IN IF ms = {}
                   THEN /\ Cardinality(RowsOf(i)) = 1
                        /\ \A k \in RowsOf(i) : out[k].total_inflow = Num(0)
                   ELSE /\ Cardinality(RowsOf(i)) = Cardinality(ms)
                        /\ \A m \in ms :
                             \E k \in RowsOf(i) :
                                /\ out[k].destination_metro = m.destination_metro
                                /\ out[k].total_inflow = Num(m.total_inflow)

-----------------------------------------------------------------------------
(* Claims about the migration fetcher *)

NumEdges == (LastYear - FirstYear + 1) * Len(outflow_metros) * Len(inflow_metros)

\* The year, origin and destination of the k-th edge (k from 1) in loop order
EdgeKey(k) ==
    LET j == k - 1
        perYear == Len(outflow_metros) * Len(inflow_metros)
    IN [year |-> FirstYear + (j \div perYear),
        origin_metro |-> outflow_metros[((j % perYear) \div Len(inflow_metros)) + 1],
        destination_metro |-> inflow_metros[(j % Len(inflow_metros)) + 1]]

\* C10: every invocation of get_migration_data, whatever the state of the
\* generator before it, returns the same sequence of edges as the first one:
\* one edge per year x origin x destination (5 x 5 x 10) in loop order, with
\* identical num_migrants, every num_migrants >= 0.
C10_Deterministic ==
    calls >= 1 =>
        /\ gen_last = gen_first
        /\ Len(gen_last[1]) = NumEdges
        /\ NumEdges = 250
        /\ \A k \in 1..NumEdges :
             LET e == gen_last[1][k]
             IN /\ e.year = EdgeKey(k).year
                /\ e.origin_metro = EdgeKey(k).origin_metro
                /\ e.destination_metro = EdgeKey(k).destination_metro
                /\ e.num_migrants >= 0

C10_Witness ==
    /\ calls = 2
    /\ rng = StateAfter(SeedValue, 275)
    /\ gen_last[1][1].num_migrants = 22045
    /\ gen_last[1][NumEdges].num_migrants > 0

-----------------------------------------------------------------------------
(* Claims about the fetchers' and normalizers' failures *)

\* main() of acquire_data.py: the fetcher called after each caught fetcher
FetcherAfter(step) ==
    CASE step = "get_bls_expenditure_data" -> "get_census_data"
      [] step = "get_census_data" -> "get_hud_rent_data"
      [] step = "get_hud_rent_data" -> "get_migration_data"

\* The record of a source that is unavailable: an error naming no local file
\* (network failure, provider status, archive without a csv), or the warning
\* of the absent survey key
SourceUnavailable(rec) ==
    /\ rec.files = NoFiles
    /\ rec.level = "error" \/ rec.text = "No Census API key provided"

\* This step is a fetcher that fails because its source is unavailable: the
\* last record it logs says so
FetcherFails ==
    /\ pc = "stage"
    /\ stagePc \in {"get_bls_expenditure_data", "get_census_data", "get_hud_rent_data"}
    /\ Len(stderr') > Len(stderr)
    /\ SourceUnavailable(stderr'[Len(stderr')])

\* The acquisition script has exited in this run and no later stage has started
AcquisitionExited == Len(started) = 1 /\ status[1] # NotRun

\* The fetchers were reached: the module-level code did not end the script
FetchersReached == \E k \in 1..Len(stderr) : stderr[k] = BlsKeyRec

\* C11: a fetcher that fails because its source is unavailable (network
\* failure, provider status, archive without a csv, no survey credentials)
\* writes nothing to the raw store and raises nothing: the sub-process goes
\* on to the next fetcher of main(). Once the acquisition script has exited
\* after reaching its fetchers, the last fetcher (get_migration_data) has
\* run, and the script's status is non-zero only by an uncaught error (a
\* traceback), never by a caught fetcher failure.
C11_FetcherFailureContained ==
    /\ [][FetcherFails =>
            /\ raw' = raw
            /\ pc' = "stage"
            /\ status' = status
            /\ stagePc' = FetcherAfter(stagePc)]_vars
    /\ []((AcquisitionExited /\ FetchersReached) =>
            /\ \/ raw["synthetic_migration_data"] = run
               \/ stderr[Len(stderr)].level = "traceback"
            /\ Len(stderr) >= 2
            /\ stderr[2].text = "No Census API key provided"
                  \/ (Len(stderr) >= 3 /\ stderr[3].text = "No Census API key provided")
            /\ status[1] = 0 <=> \A k \in 1..Len(stderr) : stderr[k].level # "traceback")

\* All three network fetchers failed, nothing of theirs was written in this
\* run, the migration fetcher still ran and the script exited 0
C11_Witness ==
    /\ AcquisitionExited
    /\ status[1] = 0
    /\ Len(stderr) = 4
    /\ \A k \in {2, 3, 4} : SourceUnavailable(stderr[k])
    /\ \A f \in RawFiles \ {"synthetic_migration_data"} : raw[f] # run
    /\ raw["synthetic_migration_data"] = run

\* main() of process_data.py: the normalizers in call order, with the raw
\* file each reads and the processed files each writes
NormalizerSteps == <<"process_bls_expenditure_data", "process_census_states",
                     "process_census_metros", "process_hud_rent_data",
                     "process_migration_data", "combine_data_for_analysis">>

RawOf(k) ==
    <<"bls_consumer_expenditure", "census_states_acs", "census_metros_acs",
      "hud_fair_market_rent", "synthetic_migration_data">>[k]

OutOf(k) ==
    << {"processed_bls_expenditure"}, {"processed_states_acs"}, {"processed_metros_acs"},
       {"processed_hud_rent"},
       {"processed_migration_inflow", "processed_migration_outflow",
        "processed_migration_destinations"} >>[k]

ResultOf(k) == <<"bls", "census_states", "census_metros", "hud", "migration">>[k]

\* The k-th normalizer is about to run and its raw file is absent
MissesRaw(k) ==
    /\ pc = "stage"
    /\ stagePc = NormalizerSteps[k]
    /\ raw[RawOf(k)] = Absent

\* C12: a normalizer whose raw file is absent returns no data, raises
\* nothing, leaves every processed file as it was, and is followed by the
\* next normalizer of main(); and no normalizer's processed file is ever
\* written in a run in which its raw file is absent.
C12_AbsentRawTolerated ==
    /\ [][\A k \in 1..5 :
            MissesRaw(k) =>
               /\ proc' = proc
               /\ ~returned'[ResultOf(k)]
               /\ pc' = "stage"
               /\ status' = status
               /\ stagePc' = NormalizerSteps[k + 1]]_vars
    /\ [](\A k \in 1..5 :
            raw[RawOf(k)] = Absent => \A f \in OutOf(k) : proc[f] # run)

\* The processing script has run to its end with the expenditure, survey and
\* rent raw files absent: none of their processed files exists, and the
\* migration normalizer after them still wrote its views in this run
C12_Witness ==
    /\ Len(started) = 2
    /\ status[2] = 0
    /\ \A k \in 1..4 : raw[RawOf(k)] = Absent /\ \A f \in OutOf(k) : proc[f] = Absent
    /\ \E i \in 1..Len(stderr) : stderr[i].files = {"hud_fair_market_rent"}
    /\ proc["processed_migration_inflow"] = run

\* The processing script of this run has run to its end
ProcessingDone == Len(started) >= 2 /\ status[2] = 0

\* C13: once the processing script of a run has run to its end, a combined
\* file that exists was written in this run and joins processed files that
\* were all written in this run; it is never a file an earlier run left.
C13_RebuiltEveryRun ==
    (ProcessingDone /\ Exists(proc, "combined_analysis_data")) =>
        /\ proc["combined_analysis_data"] = run
        /\ \A f \in RequiredFiles : proc[f] = run

\* run_script has just returned for the latest stage: stderr still holds
\* what that stage's sub-process wrote to its standard error
StageReturned == pc \in {"main", "done"} /\ Len(started) >= 1

\* C14: whenever run_script has returned for a stage, with status zero or
\* not, the pipeline log ends with an entry for that stage with its captured
\* stdout lines, all of its captured stderr lines, and its duration.
C14_StreamsAndDurationLogged ==
    StageReturned =>
        /\ Len(log) >= Len(started)
        /\ LET entry == log[Len(log)]
           IN /\ entry.stage = started[Len(started)]
              /\ entry.stdout
              /\ entry.stderr = stderr
              /\ entry.duration

-----------------------------------------------------------------------------
(* Claims about the rent benchmark normalizer *)

\* The allow-list names the raw table carries, in allow-list order
PresentAllowed == SelectSeq(AllowList, LAMBDA c : c \in Range(hud_raw.cols))

PresentRents == SelectSeq(PresentAllowed, StartsWithFmr)

\* Shape (a): the present allow-list columns in allow-list order, each cell
\* as in the raw table, and avg_rent iff a rent column is present
IsProjection(out) ==
    /\ out.cols = IF PresentRents # <<>> THEN Append(PresentAllowed, "avg_rent")
                  ELSE PresentAllowed
    /\ Len(out.rows) = Len(hud_raw.rows)
    /\ \A i \in 1..Len(out.rows) :
          /\ \A k \in 1..Len(PresentAllowed) :
                out.rows[i][PresentAllowed[k]] = hud_raw.rows[i][PresentAllowed[k]]
          /\ PresentRents # <<>> =>
                LET vals == {k \in 1..Len(PresentRents) :
                                IsNum(hud_raw.rows[i][PresentRents[k]])}
                    mean == out.rows[i]["avg_rent"]
                IN IF vals = {} THEN IsNaN(mean)
                   ELSE /\ IsNum(mean)
                        /\ mean.n * Cardinality(vals) =
                             mean.d * SumCells(hud_raw.rows[i], PresentRents)

\* C15: the normalizer's output is either (a) the projection on the present
\* allow-list columns with avg_rent iff a rent column is present, or (b) the
\* raw table unmodified; and a raw table with none of the allow-list columns
\* is passed through unmodified, not projected to zero columns.
C15_TwoShapes ==
    (phase = "done" /\ hud_out # <<>>) =>
        /\ IsProjection(hud_out[1]) \/ hud_out[1] = hud_raw
        /\ PresentAllowed = <<>> => hud_out[1] = hud_raw

====
